---- MODULE Spec2Model ----
(***************************************************************************)
(* minislug: slugify / slugify_with (src/src/lib.rs), SlugOptions          *)
(* (src/src/options.rs) and the transliteration table                      *)
(* (src/src/translit.rs).                                                  *)
(*                                                                         *)
(* A Rust `char` is a string: an ASCII character is itself ("a", "-"),     *)
(* NUL and every non-ASCII character is named by its code point            *)
(* ("U+00E9").  A Rust `String` is a sequence of such characters; its      *)
(* `len()` is the sum of the UTF-8 lengths of its characters (ByteLen).    *)
(***************************************************************************)
EXTENDS Naturals, Sequences, FiniteSets, TLC

VARIABLES input, opt, features, out, last_was_sep, pc, calls, prev

vars == <<input, opt, features, out, last_was_sep, pc, calls, prev>>

---------------------------------------------------------------------------
(* Characters                                                              *)

LowerLetters ==
    <<"a","b","c","d","e","f","g","h","i","j","k","l","m",
      "n","o","p","q","r","s","t","u","v","w","x","y","z">>

UpperLetters ==
    <<"A","B","C","D","E","F","G","H","I","J","K","L","M",
      "N","O","P","Q","R","S","T","U","V","W","X","Y","Z">>

AsciiLower == {LowerLetters[k] : k \in DOMAIN LowerLetters}

AsciiUpper == {UpperLetters[k] : k \in DOMAIN UpperLetters}

AsciiDigits == {"0","1","2","3","4","5","6","7","8","9"}

LowerOf == [c \in AsciiUpper |-> LowerLetters[CHOOSE k \in DOMAIN UpperLetters : UpperLetters[k] = c]]

UpperOf == [c \in AsciiLower |-> UpperLetters[CHOOSE k \in DOMAIN LowerLetters : LowerLetters[k] = c]]

\* The non-ASCII characters of the model:
\*   U+00A0 no-break space      U+00C7 C-cedilla (upper)   U+00C9 E-acute (upper)
\*   U+00DF sharp s             U+00E9 e-acute             U+0130 I-with-dot (upper)
\*   U+0307 combining dot above U+03C9 Greek omega         U+0416 Cyrillic ZHE (upper)
\*   U+044C Cyrillic soft sign  U+20AC euro sign           U+2192 rightwards arrow
\*   U+00E7 c-cedilla           U+0436 Cyrillic zhe
TwoByteChars ==
    {"U+00A0","U+00C7","U+00C9","U+00DF","U+00E7","U+00E9","U+0130","U+0307",
     "U+03C9","U+0416","U+0436","U+044C"}

ThreeByteChars == {"U+20AC","U+2192"}

NonAscii == TwoByteChars \cup ThreeByteChars

\* char::len_utf8
len_utf8(ch) ==
    IF ch \in ThreeByteChars THEN 3 ELSE IF ch \in TwoByteChars THEN 2 ELSE 1

\* String::len: the length in bytes
ByteLen(s) ==
    Len(s) + Cardinality({k \in DOMAIN s : s[k] \in TwoByteChars})
           + 2 * Cardinality({k \in DOMAIN s : s[k] \in ThreeByteChars})

is_ascii(ch) == ch \notin NonAscii

is_ascii_alphanumeric(ch) == ch \in AsciiLower \cup AsciiUpper \cup AsciiDigits

to_ascii_lowercase(ch) == IF ch \in AsciiUpper THEN LowerOf[ch] ELSE ch

to_ascii_uppercase(ch) == IF ch \in AsciiLower THEN UpperOf[ch] ELSE ch

\* char::is_control (general category Cc): NUL, backspace, tab, line feed,
\* form feed, carriage return
is_control(ch) == ch \in {"U+0000", "U+0008", "\t", "\n", "\f", "\r"}

\* char::is_whitespace (White_Space)
is_whitespace(ch) == ch \in {" ", "\t", "\n", "\f", "\r", "U+00A0"}

\* char::is_alphanumeric (Alphabetic or a number)
is_alphanumeric(ch) ==
    \/ is_ascii_alphanumeric(ch)
    \/ ch \in {"U+00C7","U+00C9","U+00DF","U+00E7","U+00E9","U+0130","U+03C9",
               "U+0416","U+0436","U+044C"}

\* char::is_uppercase
is_uppercase(ch) == ch \in AsciiUpper \cup {"U+00C7","U+00C9","U+0130","U+0416"}

\* char::to_lowercase: one character may lowercase to several
to_lowercase(ch) ==
    CASE ch \in AsciiUpper -> <<LowerOf[ch]>>
      [] ch = "U+00C9"     -> <<"U+00E9">>
      [] ch = "U+00C7"     -> <<"U+00E7">>
      [] ch = "U+0416"     -> <<"U+0436">>
      [] ch = "U+0130"     -> <<"i", "U+0307">>
      [] OTHER             -> <<ch>>

---------------------------------------------------------------------------
(* translit.rs                                                             *)

None == [some |-> FALSE, val |-> <<>>]

Some(s) == [some |-> TRUE, val |-> s]

case_adjust(s, title_case) ==
    IF ~title_case \/ s = <<>> THEN s
    ELSE <<to_ascii_uppercase(Head(s))>> \o Tail(s)

transliterate(ch, lowercase) ==
    IF is_ascii(ch) THEN None
    ELSE LET is_upper == is_uppercase(ch) /\ ~lowercase IN
         CASE ch \in {"U+00C7","U+00E7"}  -> Some(case_adjust(<<"c">>, is_upper))
           [] ch \in {"U+00C9","U+00E9","U+20AC"}
                                        -> Some(case_adjust(<<"e">>, is_upper))
           [] ch = "U+0130"             -> Some(case_adjust(<<"i">>, is_upper))
           [] ch = "U+00DF"             -> Some(<<"s","s">>)
           [] ch \in {"U+0416","U+0436"}  -> Some(case_adjust(<<"z","h">>, is_upper))
           [] ch = "U+044C"             -> Some(<<>>)
           [] OTHER                     -> None

---------------------------------------------------------------------------
(* lib.rs: helpers                                                         *)

sanitize_separator(sep) == IF sep \in {"-", "_", "+", "~"} THEN sep ELSE "-"

\* mutant: a separator is pushed without looking at last_was_sep
push_sep_no_collapse(st, sep) ==
    IF st.out # <<>>
    THEN [out |-> Append(st.out, sep), last_was_sep |-> TRUE]
    ELSE st

\* st is the pair of locals (out, last_was_sep)
push_sep(st, sep) ==
    IF ~st.last_was_sep /\ st.out # <<>>
    THEN [out |-> Append(st.out, sep), last_was_sep |-> TRUE]
    ELSE st

\* mutant: the lowercase option is ignored
push_ascii_alnum_as_is(o, ch, lowercase) == Append(o, ch)

push_ascii_alnum(o, ch, lowercase) ==
    IF lowercase THEN Append(o, to_ascii_lowercase(ch)) ELSE Append(o, ch)

is_separatorish(ch) ==
    is_whitespace(ch) \/ ch \in {"-", ".", ",", ";", ":", "+", "="}

is_forbidden_filename_char(ch) ==
    \/ ch \in {"<", ">", ":", "\"", "/", "\\", "|", "?", "*"}
    \/ ch = "U+0000"
    \/ is_control(ch)

\* String::pop
pop(s) == SubSeq(s, 1, Len(s) - 1)

RECURSIVE trim_end_seps_dots_spaces_underscores(_, _)
\* mutant: a trailing underscore is trimmed like a separator
trim_end_seps_dots_spaces_underscores(s, sep) ==
    IF s # <<>> /\ s[Len(s)] \in {sep, ".", " ", "_"}
    THEN trim_end_seps_dots_spaces_underscores(pop(s), sep)
    ELSE s

RECURSIVE trim_end_seps_dots_spaces(_, _)
trim_end_seps_dots_spaces(s, sep) ==
    IF s # <<>> /\ (s[Len(s)] = sep \/ s[Len(s)] = "." \/ s[Len(s)] = " ")
    THEN trim_end_seps_dots_spaces(pop(s), sep)
    ELSE s

RECURSIVE trim_start_seps(_, _)
trim_start_seps(s, sep) ==
    IF s # <<>> /\ Head(s) = sep THEN trim_start_seps(Tail(s), sep) ELSE s

\* str::starts_with
starts_with(s, p) == Len(s) >= Len(p) /\ SubSeq(s, 1, Len(p)) = p

ascii_upper(s) == [k \in DOMAIN s |-> to_ascii_uppercase(s[k])]

\* mutant: the digit 0 is accepted
is_0_to_9_suffix(s) ==
    ByteLen(s) = 1 /\ s[1] \in {"0","1","2","3","4","5","6","7","8","9"}

is_1_to_9_suffix(s) ==
    ByteLen(s) = 1 /\ s[1] \in {"1","2","3","4","5","6","7","8","9"}

\* mutant: CON, PRN, AUX and NUL are looked for at the end of the name
is_windows_reserved_name_suffix(name) ==
    LET upper == ascii_upper(name) IN
    \/ \E r \in {<<"C","O","N">>, <<"P","R","N">>, <<"A","U","X">>, <<"N","U","L">>} :
          Len(upper) >= 3 /\ SubSeq(upper, Len(upper) - 2, Len(upper)) = r
    \/ (starts_with(upper, <<"C","O","M">>) /\ is_1_to_9_suffix(SubSeq(upper, 4, Len(upper))))
    \/ (starts_with(upper, <<"L","P","T">>) /\ is_1_to_9_suffix(SubSeq(upper, 4, Len(upper))))

is_windows_reserved_name(name) ==
    LET upper == ascii_upper(name) IN
    \/ upper \in {<<"C","O","N">>, <<"P","R","N">>, <<"A","U","X">>, <<"N","U","L">>}
    \/ (starts_with(upper, <<"C","O","M">>) /\ is_1_to_9_suffix(SubSeq(upper, 4, Len(upper))))
    \/ (starts_with(upper, <<"L","P","T">>) /\ is_1_to_9_suffix(SubSeq(upper, 4, Len(upper))))

---------------------------------------------------------------------------
(* lib.rs: slugify_with, stage by stage                                    *)

RECURSIVE translit_chars(_, _, _, _)
\* lines 100-116: the characters of a non-empty transliteration;
\* r is (st, pushed_any)
translit_chars(r, s, o, sep) ==
    IF s = <<>> THEN r
    ELSE LET t == Head(s) IN
         translit_chars(
           IF is_ascii_alphanumeric(t)
           THEN [st |-> [out |-> push_ascii_alnum(r.st.out, t, o.lowercase),
                         last_was_sep |-> FALSE],
                 pushed_any |-> TRUE]
           ELSE IF t = "_" /\ o.keep_underscore
           THEN [st |-> [out |-> Append(r.st.out, "_"), last_was_sep |-> FALSE],
                 pushed_any |-> TRUE]
           ELSE [st |-> push_sep(r.st, sep), pushed_any |-> r.pushed_any],
           Tail(s), o, sep)

\* lines 56-131: one iteration of `for ch in input.chars()`
loop_body(st, ch, o, feat, sep) ==
    IF is_forbidden_filename_char(ch) THEN push_sep(st, sep)
    ELSE IF is_ascii_alphanumeric(ch)
    THEN [out |-> push_ascii_alnum(st.out, ch, o.lowercase), last_was_sep |-> FALSE]
    ELSE IF ch = "_" /\ o.keep_underscore
    THEN [out |-> Append(st.out, "_"), last_was_sep |-> FALSE]
    ELSE IF feat.unicode /\ o.allow_unicode /\ is_alphanumeric(ch)
    THEN [out |-> st.out \o (IF o.lowercase THEN to_lowercase(ch) ELSE <<ch>>),
          last_was_sep |-> FALSE]
    ELSE LET tr == IF feat.transliterate THEN transliterate(ch, o.lowercase) ELSE None IN
         IF tr.some /\ tr.val = <<>> THEN st
         ELSE LET r == IF tr.some
                       THEN translit_chars([st |-> st, pushed_any |-> FALSE], tr.val, o, sep)
                       ELSE [st |-> st, pushed_any |-> FALSE]
              IN IF r.pushed_any THEN r.st
                 ELSE IF is_separatorish(ch) THEN push_sep(r.st, sep)
                 ELSE push_sep(r.st, sep)

RECURSIVE for_loop(_, _, _, _, _)
\* lines 53-131: the whole loop over the characters s, from the locals st.
\* The characters are taken in order, first half then second half; testing
\* mid before it is passed on makes the evaluation of the first half finish
\* before that of the second begins, which keeps it shallow on long inputs.
for_loop(st, s, o, feat, sep) ==
    IF s = <<>> THEN st
    ELSE IF Len(s) = 1 THEN loop_body(st, s[1], o, feat, sep)
    ELSE LET h   == Len(s) \div 2
             mid == for_loop(st, SubSeq(s, 1, h), o, feat, sep)
         IN IF mid.last_was_sep \in BOOLEAN
            THEN for_loop(mid, SubSeq(s, h + 1, Len(s)), o, feat, sep)
            ELSE mid

\* lines 134-135
trim_both(o, sep) == trim_start_seps(trim_end_seps_dots_spaces(o, sep), sep)

\* lines 138-141
avoid_empty(o, fallback) ==
    IF o = <<>> \/ o = <<".">> \/ o = <<".", ".">> THEN fallback ELSE o

\* mutant: the prefix is added without looking at the first character
avoid_hidden_always(o, avoid_leading_dot) ==
    IF avoid_leading_dot THEN <<"_">> \o o ELSE o

\* lines 144-146
avoid_hidden(o, avoid_leading_dot) ==
    IF avoid_leading_dot /\ o # <<>> /\ Head(o) = "." THEN <<"_">> \o o ELSE o

\* lines 149-151
avoid_reserved(o) == IF is_windows_reserved_name(o) THEN <<"_">> \o o ELSE o

RECURSIVE enforce_max_len(_, _)
\* lines 154-156
enforce_max_len(o, max_len_bytes) ==
    IF ByteLen(o) > max_len_bytes THEN enforce_max_len(pop(o), max_len_bytes) ELSE o

\* mutant: the second fallback check is missing
avoid_empty_after_truncation_skipped(o, fallback) == o

\* lines 159-162
avoid_empty_after_truncation(o, fallback) ==
    IF o = <<>> \/ o = <<".">> \/ o = <<".", ".">> THEN fallback ELSE o

\* the value slugify_with leaves in `out` just before line 149
before_reserved(s, o, feat) ==
    LET sep == sanitize_separator(o.separator) IN
    avoid_hidden(
      avoid_empty(
        trim_both(for_loop([out |-> <<>>, last_was_sep |-> TRUE], s, o, feat, sep).out, sep),
        o.fallback),
      o.avoid_leading_dot)

\* slugify_with as a function of its arguments and the build's features
slugify_with(s, o, feat) ==
    LET sep == sanitize_separator(o.separator) IN
    avoid_empty_after_truncation(
      trim_end_seps_dots_spaces(
        enforce_max_len(avoid_reserved(before_reserved(s, o, feat)), o.max_len_bytes),
        sep),
      o.fallback)

\* options.rs: impl Default for SlugOptions
DefaultOptions ==
    [separator |-> "-", lowercase |-> TRUE, max_len_bytes |-> 255,
     allow_unicode |-> FALSE, keep_underscore |-> TRUE, avoid_leading_dot |-> TRUE,
     fallback |-> <<"f","i","l","e">>]

---------------------------------------------------------------------------
(* The calls.  pc is the position in slugify_with; calls counts the calls  *)
(* made so far and prev is the result the previous call returned.          *)

sep == sanitize_separator(opt.separator)

\* lines 56-131
ForLoop ==
    /\ pc = "loop"
    /\ LET st == for_loop([out |-> out, last_was_sep |-> last_was_sep],
                          input, opt, features, sep)
       IN /\ out' = st.out
          /\ last_was_sep' = st.last_was_sep
    /\ pc' = "trim"
    /\ UNCHANGED <<input, opt, features, calls, prev>>

\* lines 134-135
Trim ==
    /\ pc = "trim"
    /\ out' = trim_both(out, sep)
    /\ pc' = "empty"
    /\ UNCHANGED <<input, opt, features, last_was_sep, calls, prev>>

\* lines 138-141
AvoidEmpty ==
    /\ pc = "empty"
    /\ out' = avoid_empty(out, opt.fallback)
    /\ pc' = "hidden"
    /\ UNCHANGED <<input, opt, features, last_was_sep, calls, prev>>

\* lines 144-146
AvoidHidden ==
    /\ pc = "hidden"
    /\ out' = avoid_hidden(out, opt.avoid_leading_dot)
    /\ pc' = "reserved"
    /\ UNCHANGED <<input, opt, features, last_was_sep, calls, prev>>

\* lines 149-151
AvoidReserved ==
    /\ pc = "reserved"
    /\ out' = avoid_reserved(out)
    /\ pc' = "maxlen"
    /\ UNCHANGED <<input, opt, features, last_was_sep, calls, prev>>

\* lines 154-157
EnforceMaxLen ==
    /\ pc = "maxlen"
    /\ out' = trim_end_seps_dots_spaces(enforce_max_len(out, opt.max_len_bytes), sep)
    /\ pc' = "final"
    /\ UNCHANGED <<input, opt, features, last_was_sep, calls, prev>>

\* lines 159-164
Return ==
    /\ pc = "final"
    /\ out' = avoid_empty_after_truncation(out, opt.fallback)
    /\ pc' = "done"
    /\ UNCHANGED <<input, opt, features, last_was_sep, calls, prev>>

\* lines 30-32, then 51-54: slugify(slugify(x)); the first call, too, was
\* made with the default options, and slugify is called on its result
Slugify ==
    /\ pc = "done"
    /\ calls = 1
    /\ opt = DefaultOptions
    /\ input' = out
    /\ prev' = out
    /\ calls' = 2
    /\ out' = <<>>
    /\ last_was_sep' = TRUE
    /\ pc' = "loop"
    /\ UNCHANGED <<opt, features>>

Next ==
    \/ ForLoop
    \/ Trim
    \/ AvoidEmpty
    \/ AvoidHidden
    \/ AvoidReserved
    \/ EnforceMaxLen
    \/ Return
    \/ Slugify

---------------------------------------------------------------------------
(* Inputs.  An input is a concatenation of a few pieces, so that reserved  *)
(* names, their neighbours (COM0, COM10) and every character class occur   *)
(* within a small bound.                                                   *)

MaxPieces == 3

MaxPiecesDeep == 2

MaxCap == 3

LongSlack == 1

RECURSIVE Words(_, _)
\* the concatenations of at most n pieces of P
Words(P, n) ==
    IF n = 0 THEN {<<>>}
    ELSE LET W == Words(P, n - 1) IN W \cup {w \o p : w \in W, p \in P}

Pieces ==
    {<<"c","o","n">>, <<"C","O","M">>, <<"l","p","t">>, <<"1">>, <<"0">>, <<"a">>,
     <<"_">>, <<"-">>, <<".">>, <<" ">>, <<"/">>, <<"U+00E9">>, <<"U+044C">>}

DeepPieces ==
    {<<"c","o","n">>, <<"1">>, <<"a">>, <<"_">>, <<"-">>, <<".">>, <<"~">>, <<"\t">>,
     <<"U+00C9">>, <<"U+00DF">>, <<"U+0130">>, <<"U+20AC">>}

\* inputs of the tests (tests/slugify.rs) and their neighbours
Corpus ==
    {<<>>, <<".">>, <<".",".">>, <<"-","-","a","-","-">>, <<"a"," ","b">>,
     <<"a","-","-","b">>, <<".","a","/"," ","a">>,
     <<"C","O","N">>, <<"c","o","m","1">>, <<"c","o","m","1","0">>, <<"c","o","n","a">>,
     <<"c","o","n","-","a">>, <<"_","_","a","_","_">>, <<"a","_","_","b">>,
     <<"a","_","b">>, <<"_">>, <<"_","c","o","n">>, <<"U+00E9">>, <<"U+0130","a">>,
     <<"a",".","U+03C9">>, <<".","a">>}

Pad(n) == [k \in 1..n |-> "a"]

LongHeads == {<<>>, <<"-">>, <<"U+00DF">>}

\* inputs around the default cap of 255 bytes
LongInputs ==
    {p \o Pad(n) \o t : p \in LongHeads, t \in Words(Pieces, 1),
                        n \in (DefaultOptions.max_len_bytes - LongSlack)
                               ..(DefaultOptions.max_len_bytes + LongSlack)}

Features == [unicode : BOOLEAN, transliterate : BOOLEAN]

Fallbacks ==
    {<<"f","i","l","e">>, <<".","x">>, <<"c","o","n">>, <<"-","-">>, <<".">>}

AllOptions ==
    [separator : {"-", "_", "+", "~", "/"}, lowercase : BOOLEAN,
     max_len_bytes : (0..MaxCap) \cup {255}, allow_unicode : BOOLEAN,
     keep_underscore : BOOLEAN, avoid_leading_dot : BOOLEAN, fallback : Fallbacks]

DeepOptions ==
    [separator : {"-", "_", "~"}, lowercase : BOOLEAN,
     max_len_bytes : {MaxCap, 255}, allow_unicode : BOOLEAN,
     keep_underscore : BOOLEAN, avoid_leading_dot : {TRUE},
     fallback : {<<"f","i","l","e">>}]

\* lines 51-54: a call of slugify_with has begun
InitCall ==
    /\ out = <<>>
    /\ last_was_sep = TRUE
    /\ pc = "loop"
    /\ calls = 1
    /\ prev = <<>>

\* every option with the inputs of the corpus
InitWide ==
    /\ input \in Corpus
    /\ opt \in AllOptions
    /\ features \in Features
    /\ InitCall

\* more inputs with fewer options
InitDeep ==
    /\ input \in Words(DeepPieces, MaxPiecesDeep)
    /\ opt \in DeepOptions
    /\ features \in {f \in Features : f.unicode = f.transliterate}
    /\ InitCall

Init == InitWide \/ InitDeep

Spec == Init /\ [][Next]_vars

\* slugify: the default options
InitDefault ==
    /\ input \in Words(Pieces, MaxPieces) \cup LongInputs \cup Corpus
    /\ opt = DefaultOptions
    /\ features \in Features
    /\ InitCall

SpecDefault == InitDefault /\ [][Next]_vars

---------------------------------------------------------------------------
(* Properties                                                              *)

Degenerate == {<<>>, <<".">>, <<".", ".">>}

\* CON, PRN, AUX, NUL, COM1..COM9, LPT1..LPT9
ReservedNames ==
    {<<"C","O","N">>, <<"P","R","N">>, <<"A","U","X">>, <<"N","U","L">>}
    \cup {<<"C","O","M",d>> : d \in AsciiDigits \ {"0"}}
    \cup {<<"L","P","T",d>> : d \in AsciiDigits \ {"0"}}

\* C1: with a fallback other than "", "." and "..", the result is never
\* the empty string, "." or "..", whatever the input and the options
\* (max_len_bytes = 0 included).
C1_NonEmpty ==
    (pc = "done" /\ opt.fallback \notin Degenerate) => out \notin Degenerate

\* C1: a cap of 0 empties the slug of "CON" and the fallback is returned
C1_Witness ==
    /\ pc = "done"
    /\ calls = 1
    /\ input = <<"C","O","N">>
    /\ opt.max_len_bytes = 0
    /\ opt.fallback = <<"f","i","l","e">>
    /\ out = <<"f","i","l","e">>

\* C2: the UTF-8 byte length of the result is at most max_len_bytes.
C2_ByteBound == pc = "done" => ByteLen(out) <= opt.max_len_bytes

\* C3: the result, compared ASCII-case-insensitively, is never a reserved
\* device name.
C3_NeverReserved == pc = "done" => ascii_upper(out) \notin ReservedNames

HasAdjacent(s, c) == \E k \in 1..(Len(s) - 1) : s[k] = c /\ s[k + 1] = c

\* C4 as stated: the result never contains two consecutive occurrences of
\* the sanitized separator, for every separator and either keep_underscore.
C4_NoAdjacent == pc = "done" => ~HasAdjacent(out, sep)

\* C4 as amended: the result never contains two consecutive occurrences of
\* the sanitized separator, unless the separator is '_' and keep_underscore
\* is set (the underscores of the input are then kept as they are) or the
\* fallback itself contains two consecutive separators.
C4_NoAdjacentAmended ==
    (/\ pc = "done"
     /\ (sep # "_" \/ ~opt.keep_underscore)
     /\ ~HasAdjacent(opt.fallback, sep))
    => ~HasAdjacent(out, sep)

\* C4: a run of boundary characters has become one separator
C4_Witness ==
    /\ pc = "done"
    /\ calls = 1
    /\ input = <<"a","-","-","b">>
    /\ opt.separator = "~"
    /\ out = <<"a","~","b">>

EdgeChars == {sep, ".", " "}

\* C5: with the default fallback the result neither starts nor ends with
\* the sanitized separator, '.' or a space.
C5_NoEdgeSeparator ==
    (pc = "done" /\ opt.fallback = <<"f","i","l","e">> /\ out # <<>>)
    => (out[1] \notin EdgeChars /\ out[Len(out)] \notin EdgeChars)

\* C6: with the default options slugify(slugify(x)) = slugify(x): the
\* second call, made on the result of the first, returns that result.
C6_Idempotent == (pc = "done" /\ calls = 2) => out = prev

\* C6: the second call has returned, on a result that carries the '_'
\* prefix of a reserved name
C6_Witness ==
    /\ pc = "done"
    /\ calls = 2
    /\ prev = <<"_","c","o","n">>
    /\ out = <<"_","c","o","n">>

Kept(ch) == is_ascii_alphanumeric(ch) \/ ch = "_"

\* the same length, and underscores at the same positions
SameUnderscores(a, b) ==
    /\ Len(a) = Len(b)
    /\ \A k \in DOMAIN a : (a[k] = "_") <=> (b[k] = "_")

\* s with a space in the place of every underscore
UnderscoresAsSpaces(s) == [k \in DOMAIN s |-> IF s[k] = "_" THEN " " ELSE s[k]]

\* C7: the inputs of the claim: ASCII alphanumerics and underscores only, at
\* least one alphanumeric, not a reserved name, within max_len_bytes
C7_Input ==
    /\ \A k \in DOMAIN input : Kept(input[k])
    /\ \E k \in DOMAIN input : is_ascii_alphanumeric(input[k])
    /\ ascii_upper(input) \notin ReservedNames
    /\ ByteLen(input) <= opt.max_len_bytes

\* C7, second sentence: with keep_underscore unset an underscore is a
\* boundary like any other (the result is that of the input with a space
\* for every underscore).
C7_UnderscoreIsBoundary ==
    (pc = "done" /\ ~opt.keep_underscore)
    => out = slugify_with(UnderscoresAsSpaces(input), opt, features)

C8_ReservedPrefix ==
    pc = "done" =>
        LET s == before_reserved(input, opt, features) IN
        IF ascii_upper(s) \in ReservedNames
        THEN out = <<"_">> \o s
        ELSE /\ starts_with(s, out)
             /\ ByteLen(s) <= opt.max_len_bytes => out = s

\* C8: COM1 has been prefixed
C8_Witness ==
    /\ pc = "done"
    /\ calls = 1
    /\ input = <<"C","O","M","1">>
    /\ out = <<"_","c","o","m","1">>

RECURSIVE JoinRuns(_)
\* the maximal runs of kept characters of s, lowercased, in order, joined by
\* one '-' each
JoinRuns(s) ==
    IF \A k \in DOMAIN s : ~Kept(s[k]) THEN <<>>
    ELSE LET i == CHOOSE k \in DOMAIN s :
                      Kept(s[k]) /\ \A m \in 1..(k - 1) : ~Kept(s[m])
             j == CHOOSE k \in (i + 1)..(Len(s) + 1) :
                      /\ (k = Len(s) + 1 \/ ~Kept(s[k]))
                      /\ \A m \in i..(k - 1) : Kept(s[m])
             run  == [k \in 1..(j - i) |-> to_ascii_lowercase(s[i + k - 1])]
             rest == JoinRuns(SubSeq(s, j, Len(s)))
         IN IF rest = <<>> THEN run ELSE run \o <<"-">> \o rest

\* C9: with the default options and an ASCII input that has a kept
\* character, whose slug is not a reserved name and fits in the cap, the
\* result is the runs of kept characters, lowercased, joined by one '-' each.
C9_Collapse ==
    (/\ pc = "done"
     /\ \A k \in DOMAIN input : is_ascii(input[k])
     /\ \E k \in DOMAIN input : Kept(input[k])
     /\ ascii_upper(JoinRuns(input)) \notin ReservedNames
     /\ ByteLen(JoinRuns(input)) <= opt.max_len_bytes)
    => out = JoinRuns(input)

\* C9: boundary runs at both ends yield nothing, the inner one a single '-'
C9_Witness ==
    /\ pc = "done"
    /\ calls = 1
    /\ input = <<".","a","/"," ","a">>
    /\ out = <<"a","-","a">>

\* C10: when the fallback does not start with '.', the result does not
\* depend on avoid_leading_dot; and no '.' is in the buffer after the loop.
C10_LeadingDotOnlyFromFallback ==
    /\ (pc = "done" /\ ~starts_with(opt.fallback, <<".">>))
       => out = slugify_with(input, [opt EXCEPT !.avoid_leading_dot = ~@], features)
    /\ pc = "trim" => \A k \in DOMAIN out : out[k] # "."

\* C10: an input that starts with '.', with avoid_leading_dot set
C10_Witness ==
    /\ pc = "done"
    /\ calls = 1
    /\ input = <<".","a">>
    /\ opt.avoid_leading_dot
    /\ opt.fallback = <<"f","i","l","e">>
    /\ out = <<"a">>

====
